---------------------------- MODULE Spec2Model ----------------------------
(***************************************************************************)
(* Global Indicator Data Processor (src/main.py).                          *)
(*                                                                         *)
(* The program is one sequential run: prepare_data() reads the main CSV    *)
(* with safe_read(), reshapes it from wide to long form, merges the        *)
(* country classification, and save_and_show() writes the long table to    *)
(* an Excel workbook, one sheet per indicator, split at the row ceiling.   *)
(*                                                                         *)
(* Text is a sequence of one-character strings, so that substring tests,   *)
(* truncation, stripping and the \d{4} search are computed.  A cell is a   *)
(* record: missing (NaN), a number, or text.  A table is a header and a    *)
(* sequence of blocks; a block is a sequence of rows repeated `reps` times *)
(* in a row, which lets a table hold more rows than the Excel ceiling.     *)
(***************************************************************************)
EXTENDS Integers, Sequences, FiniteSets, TLC

(***************************************************************************)
(* Bounds of the model.                                                    *)
(***************************************************************************)
MaxWideRows == 2      \* wide rows of the main CSV
MaxNameLen == 5       \* length of the enumerated year-column names
MaxBlocks == 2        \* blocks of a table handed to save_and_show directly

(***************************************************************************)
(* Program constants.                                                      *)
(***************************************************************************)
EXCEL_MAX_ROWS == 1048576
\* SAFE_MAX without the row kept for the header
SafeMaxNoHeader == EXCEL_MAX_ROWS
SAFE_MAX == EXCEL_MAX_ROWS - 1
encodings == << "utf-8", "cp1252", "latin-1", "iso-8859-9" >>

(***************************************************************************)
(* Text.                                                                   *)
(***************************************************************************)
Digits == {"0", "1", "2", "3", "4", "5", "6", "7", "8", "9"}

DigitVal(c) ==
    CASE c = "0" -> 0 [] c = "1" -> 1 [] c = "2" -> 2 [] c = "3" -> 3
      [] c = "4" -> 4 [] c = "5" -> 5 [] c = "6" -> 6 [] c = "7" -> 7
      [] c = "8" -> 8 [] c = "9" -> 9

Min(a, b) == IF a <= b THEN a ELSE b

\* Python's `sub in s`
Contains(s, sub) ==
    \E i \in 1..(Len(s) - Len(sub) + 1) : SubSeq(s, i, i + Len(sub) - 1) = sub

\* Python's s[:k]
Prefix(s, k) == SubSeq(s, 1, Min(k, Len(s)))

\* str.strip(): leading and trailing blanks removed
Strip(s) ==
    LET nb == {i \in 1..Len(s) : s[i] # " "}
    IN  IF nb = {} THEN << >>
        ELSE SubSeq(s, CHOOSE i \in nb : \A j \in nb : i <= j,
                       CHOOSE i \in nb : \A j \in nb : i >= j)

\* str.lower() on the letters the column names of the model use
LowerChar(c) ==
    CASE c = "I" -> "i" [] c = "C" -> "c" [] c = "N" -> "n" [] c = "Y" -> "y"
      [] c = "R" -> "r" [] c = "G" -> "g" [] c = "V" -> "v" [] c = "P" -> "p"
      [] OTHER -> c

Lower(s) == [i \in 1..Len(s) |-> LowerChar(s[i])]

\* int(): the value of a run of decimal digits
RECURSIVE ToInt(_)
ToInt(s) ==
    IF s = << >> THEN 0
    ELSE 10 * ToInt(SubSeq(s, 1, Len(s) - 1)) + DigitVal(s[Len(s)])

\* str() of a part index (a positive integer)
RECURSIVE IntToStr(_)
IntToStr(n) ==
    LET d == n % 10
        c == CHOOSE x \in Digits : DigitVal(x) = d
    IN  IF n < 10 THEN << c >> ELSE IntToStr(n \div 10) \o << c >>

(***************************************************************************)
(* Column names the code names literally.                                  *)
(***************************************************************************)
CountryCode == << "C","o","u","n","t","r","y"," ","C","o","d","e" >>
IndicatorCode == << "I","n","d","i","c","a","t","o","r"," ","C","o","d","e" >>
IndicatorName == << "I","n","d","i","c","a","t","o","r"," ","N","a","m","e" >>
IncomeGroup == << "I","n","c","o","m","e"," ","G","r","o","u","p" >>
YearName == << "Y","e","a","r" >>
ValueName == << "V","a","l","u","e" >>
IndicatorInfoSheet == << "I","n","d","i","c","a","t","o","r","_","I","n","f","o" >>

(***************************************************************************)
(* Cells and tables.                                                       *)
(***************************************************************************)
NaN == [kind |-> "nan", num |-> 0, text |-> << >>]
Num(n) == [kind |-> "num", num |-> n, text |-> << >>]
Str(s) == [kind |-> "str", num |-> 0, text |-> s]

IsNa(c) == c.kind = "nan"

\* the elementwise == of a column against a value: NaN equals nothing
CellEq(a, b) == ~IsNa(a) /\ ~IsNa(b) /\ a = b

\* str(code)
PyStr(c) ==
    CASE c.kind = "nan" -> << "n", "a", "n" >>
      [] c.kind = "num" -> IntToStr(c.num)
      [] OTHER -> c.text

None == [isNone |-> TRUE, columns |-> << >>, blocks |-> << >>]
Table(cols, blks) == [isNone |-> FALSE, columns |-> cols, blocks |-> blks]
Block(rows, reps) == [rows |-> rows, reps |-> reps]

RECURSIVE Concat(_)
Concat(ss) == IF ss = << >> THEN << >> ELSE Head(ss) \o Concat(Tail(ss))

RECURSIVE SumSeq(_)
SumSeq(ns) == IF ns = << >> THEN 0 ELSE Head(ns) + SumSeq(Tail(ns))

\* len(df)
NRows(blks) == SumSeq([i \in 1..Len(blks) |-> Len(blks[i].rows) * blks[i].reps])

\* position of a column name in a header (0 when absent)
ColIdx(cols, name) ==
    IF \E i \in 1..Len(cols) : cols[i] = name
    THEN CHOOSE i \in 1..Len(cols) :
             cols[i] = name /\ \A j \in 1..(i - 1) : cols[j] # name
    ELSE 0

\* next((c for c in columns if ...), None): the first column the mask marks;
\* the empty name stands for None
FirstCol(cols, mask) ==
    IF \E i \in 1..Len(cols) : mask[i]
    THEN cols[CHOOSE i \in 1..Len(cols) :
                  mask[i] /\ \A j \in 1..(i - 1) : ~mask[j]]
    ELSE << >>

\* df[name]: the cells of a column, block by block
Column(blks, k) ==
    [b \in 1..Len(blks) |->
        [r \in 1..Len(blks[b].rows) |-> blks[b].rows[r][k]]]

RECURSIVE KeepRows(_, _)
KeepRows(rows, mask) ==
    IF rows = << >> THEN << >>
    ELSE (IF Head(mask) THEN << Head(rows) >> ELSE << >>)
             \o KeepRows(Tail(rows), Tail(mask))

\* df[mask]: the rows a boolean mask marks, empty blocks left out
FilterRows(blks, mask) ==
    LET kept == [b \in 1..Len(blks) |->
                    Block(KeepRows(blks[b].rows, mask[b]), blks[b].reps)]
    IN  SelectSeq(kept, LAMBDA b : b.rows # << >>)

\* df[name] = series
SetColumn(blks, k, series) ==
    [b \in 1..Len(blks) |->
        Block([r \in 1..Len(blks[b].rows) |->
                  [blks[b].rows[r] EXCEPT ![k] = series[b][r]]], blks[b].reps)]

(***************************************************************************)
(* prepare_data: the pure steps.                                           *)
(***************************************************************************)
\* line 85: any(x in str(col) for x in ['20', '19', 'YR'])
IsYearCol(col) ==
    \/ Contains(col, << "2", "0" >>)
    \/ Contains(col, << "1", "9" >>)
    \/ Contains(col, << "Y", "R" >>)

DetectYearCols(cols) == SelectSeq(cols, IsYearCol)
DetectIdCols(cols) == SelectSeq(cols, LAMBDA c : ~IsYearCol(c))

\* lines 92-98: pd.melt, column by column, the frame's rows in order under each
MeltRow(cols, row, id_cols, col) ==
    [k \in 1..Len(id_cols) |-> row[ColIdx(cols, id_cols[k])]]
        \o << Str(col), row[ColIdx(cols, col)] >>

Melt(frame, id_cols, value_vars) ==
    Table(id_cols \o << YearName, ValueName >>,
          Concat([v \in 1..Len(value_vars) |->
              [b \in 1..Len(frame.blocks) |->
                  Block([r \in 1..Len(frame.blocks[b].rows) |->
                            MeltRow(frame.columns, frame.blocks[b].rows[r],
                                    id_cols, value_vars[v])],
                        frame.blocks[b].reps)]]))

\* line 101: .astype(str).str.extract(r'(\d{4})'): the first four consecutive
\* digits of the text, NaN when there are none
IsDigitRun(s, i) == i + 3 <= Len(s) /\ \A j \in i..(i + 3) : s[j] \in Digits

\* ExtractYear matching only a run of exactly four digits
ExtractYearExact(cell) ==
    LET s == PyStr(cell)
        hits == {i \in 1..Len(s) :
                    /\ IsDigitRun(s, i)
                    /\ (i > 1 => s[i - 1] \notin Digits)
                    /\ (i + 4 <= Len(s) => s[i + 4] \notin Digits)}
    IN  IF hits = {} THEN NaN
        ELSE LET i == CHOOSE h \in hits : \A g \in hits : h <= g
             IN  Str(SubSeq(s, i, i + 3))

ExtractYear(cell) ==
    LET s == PyStr(cell)
        hits == {i \in 1..Len(s) : IsDigitRun(s, i)}
    IN  IF hits = {} THEN NaN
        ELSE LET i == CHOOSE h \in hits : \A g \in hits : h <= g
             IN  Str(SubSeq(s, i, i + 3))

\* line 103: .astype(int)
AsInt(cell) == Num(ToInt(cell.text))

\* ToNumeric keeping what it cannot parse (errors='ignore')
ToNumericIgnore(cell) ==
    CASE cell.kind = "str" /\ cell.text # << >>
            /\ (\A i \in 1..Len(cell.text) : cell.text[i] \in Digits)
            -> Num(ToInt(cell.text))
      [] OTHER -> cell

\* line 104: pd.to_numeric(errors='coerce'): numbers stay, digit text is parsed,
\* anything else becomes NaN
ToNumeric(cell) ==
    CASE cell.kind = "num" -> cell
      [] cell.kind = "str" /\ cell.text # << >>
            /\ (\A i \in 1..Len(cell.text) : cell.text[i] \in Digits)
            -> Num(ToInt(cell.text))
      [] OTHER -> NaN

\* lines 102 and 105: rows whose cell in column `name` is not NaN
DropNa(frame, name) ==
    LET k == ColIdx(frame.columns, name)
        col == Column(frame.blocks, k)
    IN  Table(frame.columns,
              FilterRows(frame.blocks,
                         [b \in 1..Len(col) |->
                             [r \in 1..Len(col[b]) |-> ~IsNa(col[b][r])]]))

\* line 114: df_country[['Country Code', 'Income Group']] raises KeyError when
\* one of the two columns is absent
CountryInfoRaises(country) ==
    \/ ColIdx(country.columns, CountryCode) = 0
    \/ ColIdx(country.columns, IncomeGroup) = 0

\* the rows of df_country_info, in file order
CountryInfoRows(country) ==
    LET kc == ColIdx(country.columns, CountryCode)
        kg == ColIdx(country.columns, IncomeGroup)
    IN  Concat([b \in 1..Len(country.blocks) |->
            [r \in 1..Len(country.blocks[b].rows) |->
                << country.blocks[b].rows[r][kc], country.blocks[b].rows[r][kg] >>]])

\* line 115: pd.merge(..., how='left') raises KeyError when the key column is
\* not a column of the long table
MergeRaises(long, key) == ColIdx(long.columns, key) = 0

\* line 115: the left join: every long row, in order, once per matching right
\* row (pandas joins a missing key to a missing key), once with a missing
\* category when nothing matches
MergeRow(row, k, info) ==
    LET hits == SelectSeq(info, LAMBDA e : e[1] = row[k])
    IN  IF hits = << >> THEN << Append(row, NaN) >>
        ELSE [h \in 1..Len(hits) |-> Append(row, hits[h][2])]

Merge(long, info, key) ==
    LET k == ColIdx(long.columns, key)
    IN  Table(Append(long.columns, IncomeGroup),
              [b \in 1..Len(long.blocks) |->
                  Block(Concat([r \in 1..Len(long.blocks[b].rows) |->
                                   MergeRow(long.blocks[b].rows[r], k, info)]),
                        long.blocks[b].reps)])

\* line 120: df[[indicator_col, indicator_name_col]].drop_duplicates()
RECURSIVE DropDuplicates(_)
DropDuplicates(rows) ==
    IF rows = << >> THEN << >>
    ELSE LET init == DropDuplicates(SubSeq(rows, 1, Len(rows) - 1))
             last == rows[Len(rows)]
         IN  IF \E i \in 1..Len(init) : init[i] = last THEN init
             ELSE Append(init, last)

IndicatorInfo(frame, code_col, name_col) ==
    LET kc == ColIdx(frame.columns, code_col)
        kn == ColIdx(frame.columns, name_col)
        pairs == Concat([b \in 1..Len(frame.blocks) |->
                    [r \in 1..Len(frame.blocks[b].rows) |->
                        << frame.blocks[b].rows[r][kc], frame.blocks[b].rows[r][kn] >>]])
    IN  Table(<< code_col, name_col >>,
              [p \in 1..Len(DropDuplicates(pairs)) |->
                  Block(<< DropDuplicates(pairs)[p] >>, 1)])

(***************************************************************************)
(* Inputs: what pd.read_csv can parse out of the two files.                *)
(***************************************************************************)
T1990 == << "1","9","9","0" >>
T1990YR == << "1","9","9","0"," ","[","Y","R","1","9","9","0","]" >>
T2000YR == << "2","0","0","0"," ","[","Y","R","2","0","0","0","]" >>
TYR == << "Y","R" >>
IndicatorCodeYR == IndicatorCode \o << " ","Y","R" >>

CodeX == Str(<< "X" >>)
CodeY == Str(<< "Y" >>)
CodeInfo == Str(IndicatorInfoSheet)
NameN == Str(<< "n" >>)
CtyA == Str(<< "A" >>)
CtyB == Str(<< "B" >>)
CtyZ == Str(<< "Z" >>)
High == Str(<< "H","i","g","h" >>)
Low == Str(<< "L","o","w" >>)
TextX == Str(<< "x" >>)
Text7 == Str(<< "7" >>)

\* headers as they stand in the file, before the names are stripped
HFull == << << " " >> \o CountryCode, IndicatorCode, IndicatorName \o << " " >>,
            T1990, T2000YR >>
HDupYear == << CountryCode, IndicatorCode, T1990, T1990YR >>
HSpurious == << CountryCode, IndicatorCode, T1990, TYR >>
HMelted == << CountryCode, IndicatorCodeYR, T1990 >>
HNoCountry == << IndicatorCode, IndicatorName, T1990 >>
HNoIndicator == << CountryCode, IndicatorName, T1990 >>

\* the identifier cells and the value cells a wide row is drawn from
KeyChoices == { << CtyA, CodeX >>, << CtyB, CodeInfo >>, << CtyA, NaN >> }
ValueChoices == { << Num(1), Num(2) >>, << NaN, Text7 >>, << TextX, Num(1) >> }

WideRow(h, key, vals) ==
    CASE h = HFull -> << key[1], key[2], NameN, vals[1], vals[2] >>
      [] h \in {HDupYear, HSpurious} -> << key[1], key[2], vals[1], vals[2] >>
      [] h = HMelted -> << key[1], key[2], vals[1] >>
      [] h = HNoCountry -> << key[2], NameN, vals[1] >>
      [] h = HNoIndicator -> << key[1], NameN, vals[1] >>

\* one wide row, or one wide row standing SAFE_MAX + 2 times in a row
WideBlocks(h) ==
    { Block(<< WideRow(h, k, v) >>, 1) : k \in KeyChoices, v \in ValueChoices }
        \cup { Block(<< WideRow(h, << CtyA, CodeX >>, << Num(1), Num(2) >>) >>,
                     SAFE_MAX + 2) }

RECURSIVE SeqsUpTo(_, _)
SeqsUpTo(S, n) ==
    IF n = 0 THEN { << >> }
    ELSE LET shorter == SeqsUpTo(S, n - 1)
         IN  shorter \cup { Append(q, x) : q \in shorter, x \in S }

MainTables ==
    UNION { { Table(h, blks) : blks \in SeqsUpTo(WideBlocks(h), MaxWideRows) }
              : h \in {HFull, HDupYear, HSpurious, HMelted} }
      \cup { Table(h, << Block(<< WideRow(h, << CtyA, CodeX >>,
                                         << Num(1), Num(2) >>) >>, 1) >>)
              : h \in {HNoCountry, HNoIndicator} }

CountryRows(rows) == [i \in 1..Len(rows) |-> Block(<< rows[i] >>, 1)]

CountryTables ==
    { Table(<< CountryCode \o << " " >>, IncomeGroup >>,
            CountryRows(<< << CtyA, High >>, << CtyB, Low >> >>)),
      Table(<< CountryCode, IncomeGroup >>,
            CountryRows(<< << CtyA, High >>, << CtyA, Low >> >>)),
      Table(<< CountryCode, IncomeGroup >>,
            CountryRows(<< << CtyZ, High >>, << NaN, Low >> >>)),
      Table(<< CountryCode >>, CountryRows(<< << CtyA >> >>)) }

FILE_MAIN == "data_main.csv"
FILE_COUNTRY == "data_country.csv"

ParsedTables(file) == IF file = FILE_MAIN THEN MainTables ELSE CountryTables

(***************************************************************************)
(* State.                                                                  *)
(***************************************************************************)
VARIABLES
    pc,                 \* position of the run
    events,             \* the stages completed so far, in order
    sr,                 \* position inside safe_read: "idle", "loop", "ret"
    file_name,          \* safe_read's argument
    file_exists,        \* file_path.exists()
    enc_i,              \* index of the encoding the loop is at
    attempts,           \* the pd.read_csv calls of this safe_read and how they ended
    ret,                \* safe_read's return value
    df,                 \* the wide table
    country_col, indicator_col, indicator_name_col,
    year_cols, id_cols,
    df_long,            \* the long table
    coerced,            \* the long table as it stood after line 105
    indicator_info,     \* the metadata table
    writer,             \* the output file: "closed", "open", "saved", "locked", "error"
    sheets,             \* the to_excel calls made, in order
    sheet_col,          \* save_and_show's indicator_col
    unique_codes, code_k, part_i, start

readVars == << sr, file_name, file_exists, enc_i, attempts, ret >>
prepVars == << df, country_col, indicator_col, indicator_name_col,
               year_cols, id_cols, df_long, coerced, indicator_info >>
saveVars == << writer, sheets, sheet_col, unique_codes, code_k, part_i, start >>
vars == << pc, events, readVars, prepVars, saveVars >>

Init ==
    /\ pc = "read_main"
    /\ events = << >>
    /\ sr = "idle" /\ file_name = "" /\ file_exists = FALSE
    /\ enc_i = 1 /\ attempts = << >> /\ ret = None
    /\ df = None
    /\ country_col = << >> /\ indicator_col = << >> /\ indicator_name_col = << >>
    /\ year_cols = << >> /\ id_cols = << >>
    /\ df_long = None /\ coerced = None /\ indicator_info = None
    /\ writer = "closed" /\ sheets = << >>
    /\ sheet_col = << >>
    /\ unique_codes = << >> /\ code_k = 0 /\ part_i = 0 /\ start = 0

(***************************************************************************)
(* safe_read (lines 28-54), called at pc = "read_main" and "read_country". *)
(***************************************************************************)
FileAt(p) == IF p = "read_main" THEN FILE_MAIN ELSE FILE_COUNTRY

\* AfterAttempt with every exception sent on to the next encoding
AfterAttemptRetryAll(outcome) ==
    IF outcome = "ok" THEN "return_df" ELSE "continue"

\* what the except clauses of lines 47-51 do with the outcome of a read_csv
AfterAttempt(outcome) ==
    CASE outcome = "ok" -> "return_df"
      [] outcome = "decode_error" -> "continue"
      [] OTHER -> "return_none"

\* lines 30-33: the call and the existence check
SafeReadCall ==
    /\ pc \in {"read_main", "read_country"} /\ sr = "idle"
    /\ \E exists \in BOOLEAN :
         /\ file_exists' = exists
         /\ sr' = IF exists THEN "loop" ELSE "ret"
    /\ file_name' = FileAt(pc)
    /\ enc_i' = 1 /\ attempts' = << >> /\ ret' = None
    /\ UNCHANGED << pc, events, prepVars, saveVars >>

\* lines 36-51: one pass of the loop over the encodings
SafeReadTry ==
    /\ sr = "loop" /\ enc_i <= Len(encodings)
    /\ \E outcome \in {"ok", "decode_error", "other_error"},
          parsed \in ParsedTables(file_name) :
         LET t == IF outcome = "ok" THEN parsed ELSE None
             todo == AfterAttempt(outcome)
         IN  /\ outcome # "ok" => parsed = CHOOSE x \in ParsedTables(file_name) : TRUE
             /\ attempts' = Append(attempts,
                    [enc |-> encodings[enc_i], outcome |-> outcome, table |-> t])
             /\ sr' = IF todo = "continue" THEN "loop" ELSE "ret"
             /\ enc_i' = IF todo = "continue" THEN enc_i + 1 ELSE enc_i
             /\ ret' = IF todo = "return_df" THEN t ELSE None
    /\ UNCHANGED << pc, events, file_name, file_exists, prepVars, saveVars >>

\* lines 53-54: every encoding raised UnicodeDecodeError
SafeReadExhausted ==
    /\ sr = "loop" /\ enc_i > Len(encodings)
    /\ sr' = "ret" /\ ret' = None
    /\ UNCHANGED << pc, events, file_name, file_exists, enc_i, attempts,
                    prepVars, saveVars >>

(***************************************************************************)
(* prepare_data (lines 61-123).                                            *)
(***************************************************************************)
\* lines 69-71: df = safe_read(FILE_MAIN); absent -> return None, None
LoadMain ==
    /\ pc = "read_main" /\ sr = "ret"
    /\ df' = ret
    /\ pc' = IF ret.isNone THEN "save_and_show" ELSE "columns"
    /\ events' = Append(events, "load_main")
    /\ sr' = "idle" /\ attempts' = << >>
    /\ UNCHANGED << file_name, file_exists, enc_i, ret, country_col, indicator_col,
                    indicator_name_col, year_cols, id_cols, df_long, coerced,
                    indicator_info, saveVars >>

\* KeyColumns with the classification file read before the pivot
KeyColumnsCountryFirst ==
    /\ pc = "columns"
    /\ LET cols == [i \in 1..Len(df.columns) |-> Strip(df.columns[i])]
           cc == FirstCol(cols, [i \in 1..Len(cols) |-> Contains(cols[i], CountryCode)])
           ic == FirstCol(cols, [i \in 1..Len(cols) |-> Contains(cols[i], IndicatorCode)])
           nc == FirstCol(cols, [i \in 1..Len(cols) |-> Contains(cols[i], IndicatorName)])
       IN  /\ df' = [df EXCEPT !.columns = cols]
           /\ country_col' = cc /\ indicator_col' = ic /\ indicator_name_col' = nc
           /\ pc' = IF cc = << >> \/ ic = << >> THEN "save_and_show"
                    ELSE "read_country"
    /\ UNCHANGED << events, readVars, year_cols, id_cols, df_long, coerced,
                    indicator_info, saveVars >>

\* lines 73-82: strip the column names, find the key columns
KeyColumns ==
    /\ pc = "columns"
    /\ LET cols == [i \in 1..Len(df.columns) |-> Strip(df.columns[i])]
           cc == FirstCol(cols, [i \in 1..Len(cols) |-> Contains(cols[i], CountryCode)])
           ic == FirstCol(cols, [i \in 1..Len(cols) |-> Contains(cols[i], IndicatorCode)])
           nc == FirstCol(cols, [i \in 1..Len(cols) |-> Contains(cols[i], IndicatorName)])
       IN  /\ df' = [df EXCEPT !.columns = cols]
           /\ country_col' = cc /\ indicator_col' = ic /\ indicator_name_col' = nc
           /\ pc' = IF cc = << >> \/ ic = << >> THEN "save_and_show" ELSE "year_cols"
    /\ UNCHANGED << events, readVars, year_cols, id_cols, df_long, coerced,
                    indicator_info, saveVars >>

\* lines 85-86
YearColumns ==
    /\ pc = "year_cols"
    /\ year_cols' = DetectYearCols(df.columns)
    /\ id_cols' = DetectIdCols(df.columns)
    /\ pc' = "melt"
    /\ UNCHANGED << events, readVars, df, country_col, indicator_col,
                    indicator_name_col, df_long, coerced, indicator_info, saveVars >>

\* lines 92-98
MeltStep ==
    /\ pc = "melt"
    /\ df_long' = Melt(df, id_cols, year_cols)
    /\ events' = Append(events, "pivot")
    /\ pc' = "year_extract"
    /\ UNCHANGED << readVars, df, country_col, indicator_col, indicator_name_col,
                    year_cols, id_cols, coerced, indicator_info, saveVars >>

\* line 101
YearExtract ==
    /\ pc = "year_extract"
    /\ LET k == ColIdx(df_long.columns, YearName)
           col == Column(df_long.blocks, k)
       IN  df_long' = [df_long EXCEPT !.blocks = SetColumn(@, k,
               [b \in 1..Len(col) |->
                   [r \in 1..Len(col[b]) |-> ExtractYear(col[b][r])]])]
    /\ pc' = "year_notna"
    /\ UNCHANGED << events, readVars, df, country_col, indicator_col,
                    indicator_name_col, year_cols, id_cols, coerced,
                    indicator_info, saveVars >>

\* line 102
YearNotNa ==
    /\ pc = "year_notna"
    /\ df_long' = DropNa(df_long, YearName)
    /\ pc' = "year_int"
    /\ UNCHANGED << events, readVars, df, country_col, indicator_col,
                    indicator_name_col, year_cols, id_cols, coerced,
                    indicator_info, saveVars >>

\* line 103
YearInt ==
    /\ pc = "year_int"
    /\ LET k == ColIdx(df_long.columns, YearName)
           col == Column(df_long.blocks, k)
       IN  df_long' = [df_long EXCEPT !.blocks = SetColumn(@, k,
               [b \in 1..Len(col) |->
                   [r \in 1..Len(col[b]) |-> AsInt(col[b][r])]])]
    /\ events' = Append(events, "year")
    /\ pc' = "to_numeric"
    /\ UNCHANGED << readVars, df, country_col, indicator_col, indicator_name_col,
                    year_cols, id_cols, coerced, indicator_info, saveVars >>

\* line 104
ValueToNumeric ==
    /\ pc = "to_numeric"
    /\ LET k == ColIdx(df_long.columns, ValueName)
           col == Column(df_long.blocks, k)
       IN  df_long' = [df_long EXCEPT !.blocks = SetColumn(@, k,
               [b \in 1..Len(col) |->
                   [r \in 1..Len(col[b]) |-> ToNumeric(col[b][r])]])]
    /\ pc' = "dropna"
    /\ UNCHANGED << events, readVars, df, country_col, indicator_col,
                    indicator_name_col, year_cols, id_cols, coerced,
                    indicator_info, saveVars >>

\* line 105
ValueDropNa ==
    /\ pc = "dropna"
    /\ df_long' = DropNa(df_long, ValueName)
    /\ coerced' = DropNa(df_long, ValueName)
    /\ events' = Append(events, "coerce")
    /\ pc' = "read_country"
    /\ UNCHANGED << readVars, df, country_col, indicator_col, indicator_name_col,
                    year_cols, id_cols, indicator_info, saveVars >>

\* lines 110-118: df_country = safe_read(FILE_COUNTRY); the merge, with every
\* exception of the block caught
MergeCountry ==
    /\ pc = "read_country" /\ sr = "ret"
    /\ LET country == [ret EXCEPT !.columns =
                          [i \in 1..Len(ret.columns) |-> Strip(ret.columns[i])]]
           raises == CountryInfoRaises(country) \/ MergeRaises(df_long, country_col)
       IN  df_long' = IF ret.isNone \/ raises THEN df_long
                      ELSE Merge(df_long, CountryInfoRows(country), country_col)
    /\ events' = Append(events, "load_country")
    /\ pc' = "indicator_info"
    /\ sr' = "idle" /\ attempts' = << >>
    /\ UNCHANGED << file_name, file_exists, enc_i, ret, df, country_col,
                    indicator_col, indicator_name_col, year_cols, id_cols,
                    coerced, indicator_info, saveVars >>

\* lines 120-123
ReturnData ==
    /\ pc = "indicator_info"
    /\ indicator_info' = IF indicator_name_col = << >> THEN None
                         ELSE IndicatorInfo(df, indicator_col, indicator_name_col)
    /\ pc' = "save_and_show"
    /\ UNCHANGED << events, readVars, df, country_col, indicator_col,
                    indicator_name_col, year_cols, id_cols, df_long, coerced,
                    saveVars >>

(***************************************************************************)
(* save_and_show (lines 130-188).                                          *)
(***************************************************************************)
PartText == << "P","a","r","t" >>
PText == << "_","p" >>

\* line 149
IsIndicatorCol(c) ==
    \/ Contains(c, IndicatorCode)
    \/ Lower(c) \in { << "i","n","d","i","c","a","t","o","r"," ","c","o","d","e" >>,
                      << "i","n","d","i","c","a","t","o","r","_","c","o","d","e" >>,
                      << "i","n","d","i","c","a","t","o","r","c","o","d","e" >> }

\* line 157: f"Part{i}"[:31]
PartName(i) == Prefix(PartText \o IntToStr(i), 31)

\* line 170: str(code)[:28]
WholeName(code) == Prefix(PyStr(code), 28)

\* line 177: f"{str(code)[:20]}_p{i}"[:31]
SplitName(code, i) == Prefix(Prefix(PyStr(code), 20) \o PText \o IntToStr(i), 31)

\* line 161: df[indicator_col].unique(), in order of first appearance
UniqueCodes(frame, col) ==
    DropDuplicates(Concat(Column(frame.blocks, ColIdx(frame.columns, col))))

\* line 164: df[df[indicator_col] == code]
Sub(frame, col, code) ==
    LET cells == Column(frame.blocks, ColIdx(frame.columns, col))
    IN  FilterRows(frame.blocks,
                   [b \in 1..Len(cells) |->
                       [r \in 1..Len(cells[b]) |-> CellEq(cells[b][r], code)]])

\* a to_excel call: the sheet name and the rows lo <= position < hi of the
\* group it was cut from (.iloc[lo:hi] stops at the group's end)
Sheet(kind, name, code, lo, hi, n) ==
    [kind |-> kind, name |-> name, code |-> code, lo |-> lo, hi |-> Min(hi, n)]

\* SaveEnter without the `if df is None: return`
SaveEnterNoCheck ==
    /\ pc = "save_and_show"
    /\ pc' = "open_writer"
    /\ events' = Append(events, "export")
    /\ UNCHANGED << readVars, prepVars, saveVars >>

\* lines 130-145: nothing to do without a table; else the export begins
SaveEnter ==
    /\ pc = "save_and_show"
    /\ pc' = IF df_long.isNone THEN "done" ELSE "open_writer"
    /\ events' = IF df_long.isNone THEN events ELSE Append(events, "export")
    /\ UNCHANGED << readVars, prepVars, saveVars >>

\* lines 147-152 and 161-162: the file is opened, the column is looked for
OpenWriter ==
    /\ pc = "open_writer"
    /\ writer' = "open"
    /\ LET col == FirstCol(df_long.columns,
                  [i \in 1..Len(df_long.columns) |-> IsIndicatorCol(df_long.columns[i])])
       IN  /\ sheet_col' = col
           /\ IF col = << >>
              THEN /\ pc' = "part_loop"
                   /\ unique_codes' = << >> /\ code_k' = 0
                   /\ part_i' = 1 /\ start' = 0
              ELSE /\ pc' = "code_loop"
                   /\ unique_codes' = UniqueCodes(df_long, col) /\ code_k' = 1
                   /\ part_i' = 0 /\ start' = 0
    /\ UNCHANGED << events, readVars, prepVars, sheets >>

\* lines 155-159: one pass of the loop over range(0, total_rows, SAFE_MAX)
WritePart ==
    /\ pc = "part_loop" /\ start < NRows(df_long.blocks)
    /\ sheets' = Append(sheets, Sheet("part", PartName(part_i), NaN,
                                      start, start + SAFE_MAX, NRows(df_long.blocks)))
    /\ part_i' = part_i + 1 /\ start' = start + SAFE_MAX
    /\ UNCHANGED << pc, events, readVars, prepVars, writer, sheet_col,
                    unique_codes, code_k >>

PartsDone ==
    /\ pc = "part_loop" /\ start >= NRows(df_long.blocks)
    /\ pc' = "info_sheet"
    /\ UNCHANGED << events, readVars, prepVars, saveVars >>

\* lines 163-167: the next code selects no row
SkipEmpty ==
    /\ pc = "code_loop" /\ code_k <= Len(unique_codes)
    /\ NRows(Sub(df_long, sheet_col, unique_codes[code_k])) = 0
    /\ code_k' = code_k + 1
    /\ UNCHANGED << pc, events, readVars, prepVars, writer, sheets, sheet_col,
                    unique_codes, part_i, start >>

\* lines 163-172: the next code's rows fit one sheet
WriteWhole ==
    /\ pc = "code_loop" /\ code_k <= Len(unique_codes)
    /\ LET code == unique_codes[code_k]
           n == NRows(Sub(df_long, sheet_col, code))
       IN  /\ n # 0 /\ n <= SAFE_MAX
           /\ sheets' = Append(sheets, Sheet("whole", WholeName(code), code, 0, n, n))
    /\ code_k' = code_k + 1
    /\ UNCHANGED << pc, events, readVars, prepVars, writer, sheet_col,
                    unique_codes, part_i, start >>

\* lines 163-175: the next code's rows exceed the ceiling
EnterSplit ==
    /\ pc = "code_loop" /\ code_k <= Len(unique_codes)
    /\ NRows(Sub(df_long, sheet_col, unique_codes[code_k])) > SAFE_MAX
    /\ pc' = "split_loop" /\ part_i' = 1 /\ start' = 0
    /\ UNCHANGED << events, readVars, prepVars, writer, sheets, sheet_col,
                    unique_codes, code_k >>

\* lines 175-179: one pass of the loop over range(0, n, SAFE_MAX)
WriteSplit ==
    /\ pc = "split_loop"
    /\ LET code == unique_codes[code_k]
           n == NRows(Sub(df_long, sheet_col, code))
       IN  /\ start < n
           /\ sheets' = Append(sheets, Sheet("split", SplitName(code, part_i), code,
                                             start, start + SAFE_MAX, n))
    /\ part_i' = part_i + 1 /\ start' = start + SAFE_MAX
    /\ UNCHANGED << pc, events, readVars, prepVars, writer, sheet_col,
                    unique_codes, code_k >>

SplitDone ==
    /\ pc = "split_loop"
    /\ start >= NRows(Sub(df_long, sheet_col, unique_codes[code_k]))
    /\ pc' = "code_loop" /\ code_k' = code_k + 1
    /\ UNCHANGED << events, readVars, prepVars, writer, sheets, sheet_col,
                    unique_codes, part_i, start >>

CodesDone ==
    /\ pc = "code_loop" /\ code_k > Len(unique_codes)
    /\ pc' = "info_sheet"
    /\ UNCHANGED << events, readVars, prepVars, saveVars >>

\* lines 181-182
WriteInfo ==
    /\ pc = "info_sheet"
    /\ sheets' = IF indicator_info.isNone THEN sheets
                 ELSE Append(sheets, Sheet("info", IndicatorInfoSheet, NaN, 0,
                                           NRows(indicator_info.blocks),
                                           NRows(indicator_info.blocks)))
    /\ pc' = "close"
    /\ UNCHANGED << events, readVars, prepVars, writer, sheet_col, unique_codes,
                    code_k, part_i, start >>

\* line 184: the with block ends, the workbook is saved
CloseWriter ==
    /\ pc = "close"
    /\ writer' = "saved" /\ pc' = "done"
    /\ UNCHANGED << events, readVars, prepVars, sheets, sheet_col, unique_codes,
                    code_k, part_i, start >>

\* lines 185-188: the writer raises (the file is locked, or any other error of
\* opening, writing or saving); the export ends there
WriterRaises ==
    /\ pc \in {"open_writer", "part_loop", "code_loop", "split_loop",
               "info_sheet", "close"}
    /\ \E e \in {"locked", "error"} : writer' = e
    /\ pc' = "done"
    /\ UNCHANGED << events, readVars, prepVars, sheets, sheet_col, unique_codes,
                    code_k, part_i, start >>

(***************************************************************************)
(* The run: prepare_data(), then save_and_show() (lines 195-201).          *)
(***************************************************************************)
Next ==
    \/ SafeReadCall \/ SafeReadTry \/ SafeReadExhausted
    \/ LoadMain \/ KeyColumns \/ YearColumns \/ MeltStep
    \/ YearExtract \/ YearNotNa \/ YearInt \/ ValueToNumeric \/ ValueDropNa
    \/ MergeCountry \/ ReturnData
    \/ SaveEnter \/ OpenWriter \/ WritePart \/ PartsDone
    \/ SkipEmpty \/ WriteWhole \/ EnterSplit \/ WriteSplit \/ SplitDone
    \/ CodesDone \/ WriteInfo \/ CloseWriter \/ WriterRaises

Spec == Init /\ [][Next]_vars

(***************************************************************************)
(* Year normalization on its own: the steps of lines 85-103 applied to a   *)
(* wide table whose one value column has an enumerated name.               *)
(***************************************************************************)
NameAlphabet == {"0", "1", "9", "Y", "R"}

YearNames ==
    (SeqsUpTo(NameAlphabet, MaxNameLen) \ { << >> })
        \cup {T1990, T1990YR, T2000YR}

InitYear ==
    /\ pc = "year_cols"
    /\ events = << "load_main" >>
    /\ sr = "idle" /\ file_name = FILE_MAIN /\ file_exists = TRUE
    /\ enc_i = 1 /\ attempts = << >> /\ ret = None
    /\ \E name \in YearNames :
         df = Table(<< CountryCode, IndicatorCode, name >>,
                    << Block(<< << CtyA, CodeX, Num(1) >> >>, 1) >>)
    /\ country_col = CountryCode /\ indicator_col = IndicatorCode
    /\ indicator_name_col = << >>
    /\ year_cols = << >> /\ id_cols = << >>
    /\ df_long = None /\ coerced = None /\ indicator_info = None
    /\ writer = "closed" /\ sheets = << >> /\ sheet_col = << >>
    /\ unique_codes = << >> /\ code_k = 0 /\ part_i = 0 /\ start = 0

NextYear == YearColumns \/ MeltStep \/ YearExtract \/ YearNotNa \/ YearInt

SpecYear == InitYear /\ [][NextYear]_vars

(***************************************************************************)
(* save_and_show on its own: called with a long table of any content.      *)
(***************************************************************************)
CodeEmpty == Str(<< >>)
CodeLong == Str(<< "S","P",".","P","O","P",".","T","O","T","L",".","F","E",".",
                   "Z","S",".","A","G","E",".","6","5","U","P",".","I","N",".",
                   "5","Y" >>)
IndicatorCodeLower == << "i","n","d","i","c","a","t","o","r","_","c","o","d","e" >>

ExportCodes == {CodeX, CodeY, NaN, CodeEmpty, CodeLong}
ExportReps == {1, SAFE_MAX, SAFE_MAX + 2}

LongBlocks ==
    { Block(<< << CtyA, c, Num(1990), Num(1) >> >>, n) :
          c \in ExportCodes, n \in ExportReps }

ExportTables ==
    { Table(<< CountryCode, IndicatorCode, YearName, ValueName >>, blks) :
          blks \in SeqsUpTo(LongBlocks, MaxBlocks) }
      \cup { Table(<< CountryCode, IndicatorCodeLower, YearName, ValueName >>,
                   << Block(<< << CtyA, CodeX, Num(1990), Num(1) >> >>, n) >>) :
                 n \in ExportReps }
      \cup { Table(<< CountryCode, YearName, ValueName >>, blks) :
                 blks \in SeqsUpTo({ Block(<< << CtyA, Num(1990), Num(1) >> >>, n) :
                                        n \in ExportReps }, MaxBlocks) }
      \cup { None }

InfoTables ==
    { None, Table(<< IndicatorCode, IndicatorName >>,
                  << Block(<< << CodeX, NameN >> >>, 1) >>) }

InitExport ==
    /\ pc = "save_and_show"
    /\ events = << >>
    /\ sr = "idle" /\ file_name = "" /\ file_exists = FALSE
    /\ enc_i = 1 /\ attempts = << >> /\ ret = None
    /\ df = None
    /\ country_col = << >> /\ indicator_col = << >> /\ indicator_name_col = << >>
    /\ year_cols = << >> /\ id_cols = << >>
    /\ df_long \in ExportTables /\ coerced = None
    /\ indicator_info \in InfoTables
    /\ writer = "closed" /\ sheets = << >> /\ sheet_col = << >>
    /\ unique_codes = << >> /\ code_k = 0 /\ part_i = 0 /\ start = 0

NextExport ==
    \/ SaveEnter \/ OpenWriter \/ WritePart \/ PartsDone
    \/ SkipEmpty \/ WriteWhole \/ EnterSplit \/ WriteSplit \/ SplitDone
    \/ CodesDone \/ WriteInfo \/ CloseWriter \/ WriterRaises

SpecExport == InitExport /\ [][NextExport]_vars

(***************************************************************************)
(* Properties.                                                             *)
(***************************************************************************)
IsPrefix(p, q) == Len(p) <= Len(q) /\ SubSeq(q, 1, Len(p)) = p

HasColumnWith(frame, name) ==
    \E i \in 1..Len(frame.columns) : Contains(frame.columns[i], name)

AfterPrepare ==
    {"save_and_show", "open_writer", "part_loop", "code_loop", "split_loop",
     "info_sheet", "close", "done"}

\* C4 as stated: the stages complete in the order load main file, load
\* classification file, reshape (pivot, year normalization, value coercion),
\* export, so the classification file is read before the pivot.
C4_StatedOrder ==
    IsPrefix(events, << "load_main", "load_country", "pivot", "year", "coerce",
                        "export" >>)

\* C4 amended: the stages complete in the order load main file, pivot, year
\* normalization, value coercion, load classification file (and merge),
\* export, each after the one before it has completed: the classification
\* file is read after the long table has been pivoted and cleaned.
C4_StageOrder ==
    /\ IsPrefix(events, << "load_main", "pivot", "year", "coerce",
                           "load_country", "export" >>)
    /\ pc \in {"melt", "year_extract", "year_notna", "year_int"}
          => events[Len(events)] \in {"load_main", "pivot"}
    /\ file_name = FILE_COUNTRY =>
          /\ events[Len(events)] \in {"coerce", "load_country", "export"}
          /\ ~coerced.isNone
    /\ writer # "closed" => events[Len(events)] = "export" /\ events[Len(events) - 1] = "load_country"

C4_Witness ==
    /\ pc = "done" /\ writer = "saved"
    /\ events = << "load_main", "pivot", "year", "coerce", "load_country", "export" >>

\* C5: when the main input cannot be loaded or has no column containing
\* 'Country Code' or none containing 'Indicator Code', prepare_data returns
\* an absent long table and an absent metadata table, and the exporter does
\* nothing: the output file is never opened and no sheet is written.
C5_AbortWritesNothing ==
    (/\ pc \in AfterPrepare
     /\ \/ df.isNone
        \/ ~HasColumnWith(df, CountryCode)
        \/ ~HasColumnWith(df, IndicatorCode))
    => /\ df_long.isNone /\ indicator_info.isNone
       /\ writer = "closed" /\ sheets = << >>
       /\ pc \in {"save_and_show", "done"}
       /\ events = << "load_main" >>

C5_Witness ==
    /\ pc = "done" /\ ~df.isNone /\ ~HasColumnWith(df, IndicatorCode)
    /\ HasColumnWith(df, CountryCode)

\* C6: safe_read tries utf-8, cp1252, latin-1, iso-8859-9 in that order,
\* moves on only after a decoding error, returns the table parsed with the
\* first encoding that raises none, stops at once on any other error, and
\* returns failure exactly when the file is missing, all four encodings
\* raised a decoding error, or another error occurred.
C6_SafeRead ==
    /\ Len(attempts) <= Len(encodings)
    /\ \A i \in 1..Len(attempts) :
         /\ attempts[i].enc = << "utf-8", "cp1252", "latin-1", "iso-8859-9" >>[i]
         /\ i < Len(attempts) => attempts[i].outcome = "decode_error"
    /\ sr = "loop" =>
         \A i \in 1..Len(attempts) : attempts[i].outcome = "decode_error"
    /\ sr = "ret" =>
         LET last == attempts[Len(attempts)]
             allDecode == /\ Len(attempts) = 4
                          /\ \A i \in 1..4 : attempts[i].outcome = "decode_error"
             other == /\ attempts # << >> /\ last.outcome = "other_error"
         IN  /\ ~file_exists => attempts = << >>
             /\ file_exists => attempts # << >>
             /\ ret.isNone <=> (~file_exists \/ allDecode \/ other)
             /\ ~ret.isNone => last.outcome = "ok" /\ ret = last.table
             /\ (attempts # << >> /\ last.outcome = "decode_error") => allDecode

C6_Witness ==
    /\ sr = "ret" /\ Len(attempts) = 3 /\ ~ret.isNone
    /\ attempts[3].enc = "latin-1"

InEvents(e) == \E i \in 1..Len(events) : events[i] = e

\* the rows of a long table without the category column the merge appends
WithoutCategory(frame, width) ==
    [b \in 1..Len(frame.blocks) |->
        Block([r \in 1..Len(frame.blocks[b].rows) |->
                  SubSeq(frame.blocks[b].rows[r], 1, width)],
              frame.blocks[b].reps)]

\* C7: the classification step never drops or duplicates a long record:
\* whatever the classification file holds, the long table returned has
\* exactly the records that survived value coercion, each once; with the
\* file missing the table is returned without the category column.
C7_MergeKeepsRecords ==
    InEvents("load_country") =>
        /\ WithoutCategory(df_long, Len(coerced.columns)) = coerced.blocks
        /\ NRows(df_long.blocks) = NRows(coerced.blocks)
        /\ (pc = "indicator_info" /\ ~file_exists) => df_long = coerced

(***************************************************************************)
(* The sheets of an export.                                                *)
(***************************************************************************)
RowCeiling == 1048575

SheetSizes(ss) == [i \in 1..Len(ss) |-> ss[i].hi - ss[i].lo]

\* the to_excel calls made for the rows of one indicator code
SheetsOfCode(code) ==
    SelectSeq(sheets, LAMBDA x : x.kind \in {"whole", "split"} /\ x.code = code)

PartSheets == SelectSeq(sheets, LAMBDA x : x.kind = "part")

DataSheets == SelectSeq(sheets, LAMBDA x : x.kind # "info")

\* the number of rows of the long table that carry the code
RowsOfCode(code) ==
    LET k == ColIdx(df_long.columns, sheet_col)
    IN  SumSeq([b \in 1..Len(df_long.blocks) |->
            df_long.blocks[b].reps *
                Cardinality({r \in 1..Len(df_long.blocks[b].rows) :
                                df_long.blocks[b].rows[r][k] = code})])

\* ss cuts the rows 0..n-1 into consecutive ranges of at most RowCeiling rows
Partitions(ss, n) ==
    /\ n = 0 => ss = << >>
    /\ n > 0 =>
         /\ ss # << >>
         /\ ss[1].lo = 0 /\ ss[Len(ss)].hi = n
         /\ \A i \in 1..Len(ss) :
              /\ ss[i].lo < ss[i].hi
              /\ ss[i].hi - ss[i].lo <= RowCeiling
              /\ i < Len(ss) => ss[i + 1].lo = ss[i].hi
    /\ SumSeq(SheetSizes(ss)) = n
    /\ n = RowCeiling + 2 => SheetSizes(ss) = << RowCeiling, 2 >>

\* C1: for every row group that save_and_show has gone through (the rows of
\* one indicator code, or the whole table when there is no indicator-code
\* column), the sheets written for it are consecutive row ranges in the
\* group's order, each of at most 1,048,575 rows, their sizes sum to the
\* group's size, no row is left out or written twice, and a group of
\* 1,048,577 rows gives exactly two sheets of 1,048,575 and 2 rows.
C1_SplitPartitions ==
    /\ sheet_col # << >> =>
         \A k \in 1..Len(unique_codes) :
            (k < code_k /\ ~IsNa(unique_codes[k])) =>
                Partitions(SheetsOfCode(unique_codes[k]), RowsOfCode(unique_codes[k]))
    /\ (sheet_col = << >> /\ ~df_long.isNone /\ start >= NRows(df_long.blocks)) =>
         Partitions(PartSheets, NRows(df_long.blocks))
    /\ pc = "split_loop" =>
         LET ss == SheetsOfCode(unique_codes[code_k])
         IN  \A i \in 1..Len(ss) :
                /\ ss[i].lo = (i - 1) * RowCeiling
                /\ ss[i].hi = Min(i * RowCeiling, RowsOfCode(unique_codes[code_k]))

C1_Witness ==
    /\ pc = "done" /\ writer = "saved" /\ sheet_col # << >>
    /\ \E k \in 1..Len(unique_codes) :
         /\ RowsOfCode(unique_codes[k]) = RowCeiling + 2
         /\ Len(SheetsOfCode(unique_codes[k])) = 2

\* C2: within one export all sheet names are pairwise distinct, the
\* metadata sheet 'Indicator_Info' included.
C2_DistinctSheetNames ==
    \A i, j \in 1..Len(sheets) : i # j => sheets[i].name # sheets[j].name

\* C3: every sheet name handed to the writer is non-empty and at most 31
\* characters long.
C3_SheetNameLength ==
    \A i \in 1..Len(sheets) :
        sheets[i].name # << >> /\ Len(sheets[i].name) <= 31

\* C10: every value enumerated from the indicator-code column selects at
\* least one row, so the zero-row skip is never taken, and a completed
\* export has written every row of the long table to exactly one data sheet.
C10_EveryRowWritten ==
    /\ ~(/\ pc = "code_loop" /\ code_k <= Len(unique_codes)
         /\ NRows(Sub(df_long, sheet_col, unique_codes[code_k])) = 0)
    /\ writer = "saved" =>
         SumSeq(SheetSizes(DataSheets)) = NRows(df_long.blocks)

(***************************************************************************)
(* The pivot, cell by cell.                                                *)
(***************************************************************************)
FourDigitsAt(name, i) ==
    /\ 1 <= i /\ i + 3 <= Len(name)
    /\ name[i] \in Digits /\ name[i + 1] \in Digits
    /\ name[i + 2] \in Digits /\ name[i + 3] \in Digits

HasFourDigits(name) == \E i \in 1..Len(name) : FourDigitsAt(name, i)

\* a maximal run of exactly four digits starts at i
ExactRunAt(name, i) ==
    /\ FourDigitsAt(name, i)
    /\ (i > 1 => name[i - 1] \notin Digits)
    /\ (i + 4 <= Len(name) => name[i + 4] \notin Digits)

YearAt(name, i) ==
    1000 * DigitVal(name[i]) + 100 * DigitVal(name[i + 1])
        + 10 * DigitVal(name[i + 2]) + DigitVal(name[i + 3])

\* y is the value of the first four consecutive digits of the name
IsFirstFour(name, y) ==
    \E i \in 1..Len(name) :
        /\ FourDigitsAt(name, i) /\ y = YearAt(name, i)
        /\ \A j \in 1..(i - 1) : ~FourDigitsAt(name, j)

\* y is the value of the first run of exactly four digits of the name
IsFirstExactRun(name, y) ==
    \E i \in 1..Len(name) :
        /\ ExactRunAt(name, i) /\ y = YearAt(name, i)
        /\ \A j \in 1..(i - 1) : ~ExactRunAt(name, j)

\* the Year cells of the long table, row by row
YearCells(frame) == Concat(Column(frame.blocks, ColIdx(frame.columns, YearName)))

\* C9 as stated: every year-column name maps to the integer value of the
\* first run of exactly four digits in the name, the rows of a name with no
\* such run are dropped, and the Year is always a 4-digit integer.
C9_ExactRunOfFour ==
    pc = "to_numeric" =>
        \A c \in 1..Len(year_cols) :
            IF \E i \in 1..Len(year_cols[c]) : ExactRunAt(year_cols[c], i)
            THEN /\ Len(YearCells(df_long)) = 1
                 /\ YearCells(df_long)[1].kind = "num"
                 /\ IsFirstExactRun(year_cols[c], YearCells(df_long)[1].num)
                 /\ YearCells(df_long)[1].num \in 1000..9999
            ELSE YearCells(df_long) = << >>

\* C9 amended: every year-column name maps to the integer value of the first
\* four consecutive digits in the name (the first four digits of its first
\* run of at least four digits), the rows of a name without four
\* consecutive digits are dropped; 'YYYY' maps to its own value,
\* '1990 [YR1990]' to 1990; the Year is an integer from 0 to 9999, of four
\* digits exactly when the digits taken do not start with 0.
C9_FirstFourDigits ==
    pc = "to_numeric" =>
        \A c \in 1..Len(year_cols) :
            LET name == year_cols[c]
                ys == YearCells(df_long)
            IN  IF HasFourDigits(name)
                THEN /\ Len(ys) = 1 /\ ys[1].kind = "num"
                     /\ IsFirstFour(name, ys[1].num)
                     /\ ys[1].num \in 0..9999
                     /\ (Len(name) = 4 => ys[1].num = YearAt(name, 1))
                     /\ (name \in {T1990, T1990YR} => ys[1].num = 1990)
                     /\ (ys[1].num >= 1000 <=>
                            \E i \in 1..Len(name) :
                                /\ FourDigitsAt(name, i) /\ name[i] # "0"
                                /\ \A j \in 1..(i - 1) : ~FourDigitsAt(name, j))
                ELSE ys = << >>

C9_Witness ==
    /\ pc = "to_numeric" /\ year_cols = << T1990YR >>
    /\ YearCells(df_long) = << Num(1990) >>

\* the cell to_numeric turns into a number
IsNumeric(cell) ==
    \/ cell.kind = "num"
    \/ /\ cell.kind = "str" /\ cell.text # << >>
       /\ \A i \in 1..Len(cell.text) : cell.text[i] \in Digits

NumericValue(cell) == IF cell.kind = "num" THEN cell.num ELSE ToInt(cell.text)

FirstFour(name) ==
    YearAt(name, CHOOSE i \in 1..Len(name) :
                     FourDigitsAt(name, i) /\ \A j \in 1..(i - 1) : ~FourDigitsAt(name, j))

\* the long rows the cells of one year column give, block by block
CellRows(frame, ids, col) ==
    LET kept == [b \in 1..Len(frame.blocks) |->
            Block(Concat([r \in 1..Len(frame.blocks[b].rows) |->
                      LET row == frame.blocks[b].rows[r]
                          cell == row[ColIdx(frame.columns, col)]
                      IN  IF IsNumeric(cell)
                          THEN << [k \in 1..Len(ids) |-> row[ColIdx(frame.columns, ids[k])]]
                                    \o << Num(FirstFour(col)), Num(NumericValue(cell)) >> >>
                          ELSE << >>]),
                  frame.blocks[b].reps)]
    IN  SelectSeq(kept, LAMBDA b : b.rows # << >>)

\* one long row per numeric cell of a year column whose name holds a year
ExpectedLong(frame, ids, cols) ==
    Concat([c \in 1..Len(cols) |->
        IF HasFourDigits(cols[c]) THEN CellRows(frame, ids, cols[c]) ELSE << >>])

LongRows(frame) == Concat([b \in 1..Len(frame.blocks) |-> frame.blocks[b].rows])

KeysInLong == ColIdx(coerced.columns, country_col) # 0
                 /\ ColIdx(coerced.columns, indicator_col) # 0

\* two long rows of the same entity, indicator and year carry the same value
SingleValued ==
    LET kc == ColIdx(coerced.columns, country_col)
        ki == ColIdx(coerced.columns, indicator_col)
        ky == ColIdx(coerced.columns, YearName)
        kv == ColIdx(coerced.columns, ValueName)
        rows == LongRows(coerced)
    IN  \A i, j \in 1..Len(rows) :
            (rows[i][kc] = rows[j][kc] /\ rows[i][ki] = rows[j][ki]
                /\ rows[i][ky] = rows[j][ky]) => rows[i][kv] = rows[j][kv]

\* the (year, value) pairs of the long rows of one entity and indicator
LongPairs(cty, code) ==
    LET kc == ColIdx(coerced.columns, country_col)
        ki == ColIdx(coerced.columns, indicator_col)
        ky == ColIdx(coerced.columns, YearName)
        kv == ColIdx(coerced.columns, ValueName)
        rows == LongRows(coerced)
    IN  { << rows[i][ky].num, rows[i][kv].num >> :
            i \in {x \in 1..Len(rows) : rows[x][kc] = cty /\ rows[x][ki] = code} }

\* the (year, value) pairs of the numeric cells of the wide rows of one
\* entity and indicator, over the year columns whose name holds a year
WidePairs(cty, code) ==
    LET kc == ColIdx(df.columns, country_col)
        ki == ColIdx(df.columns, indicator_col)
        rows == LongRows(df)
    IN  { << FirstFour(year_cols[c]), NumericValue(rows[i][ColIdx(df.columns, year_cols[c])]) >> :
            << i, c >> \in
               { p \in (1..Len(rows)) \X (1..Len(year_cols)) :
                   /\ rows[p[1]][kc] = cty /\ rows[p[1]][ki] = code
                   /\ HasFourDigits(year_cols[p[2]])
                   /\ IsNumeric(rows[p[1]][ColIdx(df.columns, year_cols[p[2]])]) } }

WideKeys ==
    LET kc == ColIdx(df.columns, country_col)
        ki == ColIdx(df.columns, indicator_col)
        rows == LongRows(df)
    IN  { << rows[i][kc], rows[i][ki] >> : i \in 1..Len(rows) }

\* line 105 has just run
JustCoerced == pc = "read_country" /\ sr = "idle"

\* C8 as stated: grouping the long rows by (entity code, indicator code) and
\* collecting Year -> Value gives, for every wide row, a single-valued
\* mapping that holds exactly the non-missing numeric cells of the row's
\* year columns, also when two year columns carry the same year or two wide
\* rows share their codes.
C8_RoundTripSingleValued ==
    (JustCoerced /\ KeysInLong) =>
        /\ SingleValued
        /\ \A key \in WideKeys : LongPairs(key[1], key[2]) = WidePairs(key[1], key[2])

\* no two year columns carry the same year, no two wide rows the same codes
DistinctYearsAndKeys ==
    LET kc == ColIdx(df.columns, country_col)
        ki == ColIdx(df.columns, indicator_col)
        rows == LongRows(df)
    IN  /\ \A c, d \in 1..Len(year_cols) :
              (c # d /\ HasFourDigits(year_cols[c]) /\ HasFourDigits(year_cols[d]))
                  => FirstFour(year_cols[c]) # FirstFour(year_cols[d])
        /\ \A i, j \in 1..Len(rows) :
              i # j => (rows[i][kc] # rows[j][kc] \/ rows[i][ki] # rows[j][ki])
        /\ \A b \in 1..Len(df.blocks) : df.blocks[b].reps = 1

\* C8 amended: the long table after value coercion holds exactly one row per
\* non-missing numeric cell of a year column whose name holds four
\* consecutive digits, with the wide row's identifier cells, that year and
\* the cell's number, column by column in row order, and no row for a
\* missing or non-numeric cell; when the key columns are identifier columns,
\* the Year -> Value pairs of an entity and indicator are exactly those
\* cells, and the mapping is single-valued when no two year columns carry
\* the same year and no two wide rows share their codes.
C8_RoundTrip ==
    JustCoerced =>
        /\ coerced.columns = id_cols \o << YearName, ValueName >>
        /\ coerced.blocks = ExpectedLong(df, id_cols, year_cols)
        /\ KeysInLong =>
             /\ \A key \in WideKeys :
                    LongPairs(key[1], key[2]) = WidePairs(key[1], key[2])
             /\ DistinctYearsAndKeys => SingleValued

C8_Witness ==
    /\ JustCoerced /\ KeysInLong /\ DistinctYearsAndKeys
    /\ Len(df.blocks) = 2 /\ NRows(coerced.blocks) = 3
    /\ \E b \in 1..2, r \in {1} : \E k \in 1..Len(df.columns) :
           df.blocks[b].rows[r][k] = TextX

=============================================================================
